---- MODULE Spec2Model ----
(***************************************************************************)
(* Image storage service: the orchestration layer of app/aws/storage.py    *)
(* over a blob store (S3) and a metadata store (a DynamoDB table with the  *)
(* index by_user_created), with the status mapping of app/routers/images.  *)
(*                                                                         *)
(* Every store call is one atomic step; the code between two store calls   *)
(* belongs to the step of the call that precedes or follows it.  A request *)
(* slot runs one operation at a time, the slots interleave freely, and any *)
(* store call may fail.                                                    *)
(***************************************************************************)
EXTENDS Integers, Sequences, FiniteSets, TLC

VARIABLES
    blobs,      \* blob store: <<bucket, key>> -> [Body, ContentType]
    table,      \* metadata store: image_id -> item
    pc,         \* per request slot: "idle" or the next store call of its operation
    loc,        \* per request slot: the locals of the running operation
    ret,        \* the response the last step produced: what the operation it ended
                \* returned or raised, NoResult when the step ended no operation
    nextUuid,   \* number of identifiers uuid4 has produced
    uploads,    \* number of direct uploads the clients have made
    usedKeys,   \* every <<bucket, key>> a blob was ever written to
    supplied,   \* image_id -> the bytes its create supplied, until a delete of
                \* that id removes its blob or a finalize of that id writes its item
    assigned    \* every image_id a record was ever written under

vars == <<blobs, table, pc, loc, ret, nextUuid, uploads, usedKeys, supplied, assigned>>

----------------------------------------------------------------------------
(* Bounds of the exploration *)

\* uuid4 is called at most this many times (successful validations of create)
MaxUuid == 1
\* the clients upload directly to the blob store at most this many times
MaxDirect == 1
\* a page of query/scan evaluates between 1 and this many items
MaxPage == 2
\* uuid4 is called at most this many times where listing is explored
MaxRecords == 2
\* uuid4 is called at most this many times where concurrent creates are explored
MaxCreates == 2

\* request slots
Requests == {"r1", "r2"}

----------------------------------------------------------------------------
(* Python values *)

\* Optional[T]: None is <<>>, a value v is <<v>>
NoneV == <<>>
Some(v) == <<v>>
IsNone(o) == o = <<>>
Val(o) == o[1]

\* truthiness of an Optional[str]: None and "" are falsy
Truthy(o) == ~IsNone(o) /\ Val(o) # ""

HasPrefix(s, p) == Len(s) >= Len(p) /\ SubSeq(s, 1, Len(p)) = p

\* settings.bucket_name and settings.url_expiry
BucketName == "images"
UrlExpiry == 900

----------------------------------------------------------------------------
(* Image decoding (PIL.Image.open), by file signature; an image is its      *)
(* signature followed by a width byte and a height byte.                   *)

PngSig == <<137, 80, 78, 71, 13, 10, 26, 10>>
JpegSig == <<255, 216, 255>>
GifSig == <<71, 73, 70, 56, 57, 97>>

Signatures == {[fmt |-> "PNG", sig |-> PngSig], [fmt |-> "JPEG", sig |-> JpegSig],
               [fmt |-> "GIF", sig |-> GifSig]}

\* Image.open(BytesIO(data)): None when the bytes are not decodable
ImageOpen(data) ==
    LET m == {s \in Signatures : HasPrefix(data, s.sig) /\ Len(data) >= Len(s.sig) + 2}
    IN  IF m = {} THEN NoneV
        ELSE LET s == CHOOSE s \in m : TRUE
             IN  Some([format |-> s.fmt, width |-> data[Len(s.sig) + 1],
                       height |-> data[Len(s.sig) + 2]])

\* _extract_image_metadata: <<>> stands for the empty dict
ExtractImageMetadata(data) ==
    LET img == ImageOpen(data)
    IN  IF IsNone(img) THEN NoneV
        ELSE Some([width |-> Val(img).width, height |-> Val(img).height,
                   pixels |-> ToString(Val(img).width) \o "x" \o ToString(Val(img).height),
                   format |-> Val(img).format, mode |-> "RGB"])

\* the bytes are not an image, or an image of a format other than JPEG and PNG
ValidateUnsupported(data) ==
    LET img == ImageOpen(data)
    IN  IsNone(img) \/ Val(img).format \notin {"JPEG", "PNG"}

\* a validation that lets empty fields through
ValidateStoreTypeOnly(user_id, filename, content_type, data) ==
    IF ValidateUnsupported(data) THEN "unsupported_image_type" ELSE ""

\* the validation at the head of _store_image: "" when the arguments pass
ValidateStore(user_id, filename, content_type, data) ==
    IF ValidateUnsupported(data) THEN "unsupported_image_type"
    ELSE IF user_id = "" \/ filename = "" \/ content_type = "" THEN "missing_required_fields"
    ELSE ""

----------------------------------------------------------------------------
(* base64.b64decode (binascii.a2b_base64, not strict).  A text is a        *)
(* sequence of characters given by their value in the base64 alphabet:     *)
(* 0..63, 64 for "=", 65 for a character outside the alphabet.             *)

B64Pad == 64

RECURSIVE B64Scan(_, _, _, _, _, _)
B64Scan(s, i, quad, left, pads, acc) ==
    IF i > Len(s) THEN [ok |-> quad = 0, bytes |-> acc]
    ELSE LET ch == s[i] IN
         IF ch = B64Pad
         THEN IF quad >= 2 /\ quad + pads + 1 >= 4
              THEN [ok |-> TRUE, bytes |-> acc]
              ELSE B64Scan(s, i + 1, quad, left, IF quad >= 2 THEN pads + 1 ELSE pads, acc)
         ELSE IF ch > B64Pad
         THEN B64Scan(s, i + 1, quad, left, pads, acc)
         ELSE CASE quad = 0 -> B64Scan(s, i + 1, 1, ch, 0, acc)
                [] quad = 1 -> B64Scan(s, i + 1, 2, ch % 16, 0,
                                       Append(acc, left * 4 + ch \div 16))
                [] quad = 2 -> B64Scan(s, i + 1, 3, ch % 4, 0,
                                       Append(acc, left * 16 + ch \div 4))
                [] OTHER    -> B64Scan(s, i + 1, 0, 0, 0, Append(acc, left * 64 + ch))

B64Decode(s) == B64Scan(s, 1, 0, 0, 0, <<>>)

----------------------------------------------------------------------------
(* Identifiers, keys, items *)

\* a generator that produces the same identifier every time
UuidConstant(n) == "i1"

\* uuid.uuid4().hex: the n-th identifier produced
Uuid(n) == "i" \o ToString(n)

\* a key that puts the filename before the identifier
ObjectKeyFilenameFirst(user_id, image_id, filename) ==
    user_id \o "/" \o filename \o "/" \o image_id

ObjectKey(user_id, image_id, filename) == user_id \o "/" \o image_id \o "/" \o filename

\* the optional attributes of an item: absent when the argument is None
OptField(name, o) == IF IsNone(o) THEN <<>> ELSE name :> Val(o)

\* the item _store_image assembles
StoreItem(user_id, image_id, created_at, filename, content_type, data, extra) ==
    [image_id |-> image_id, user_id |-> user_id, created_at |-> created_at,
     filename |-> filename, content_type |-> content_type, size |-> Len(data),
     bucket_name |-> BucketName,
     object_key |-> ObjectKey(user_id, image_id, filename)]
    @@ OptField("title", extra.title)
    @@ OptField("description", extra.description)
    @@ OptField("tags", extra.tags)
    @@ OptField("auto_metadata", ExtractImageMetadata(data))
    @@ OptField("user_metadata", extra.metadata)

\* s3.generate_presigned_url
PresignedUrl(bucket, key, disposition) ==
    [Bucket |-> bucket, Key |-> key, ResponseContentDisposition |-> disposition,
     ExpiresIn |-> UrlExpiry]

----------------------------------------------------------------------------
(* The two stores *)

HasBlob(b, bucket, key) == <<bucket, key>> \in DOMAIN b

\* s3.head_object: "ok", "404" when there is no object at the key, "store_error"
\* when the call fails otherwise
HeadObject(b, bucket, key, ok) ==
    IF ~ok THEN "store_error" ELSE IF ~HasBlob(b, bucket, key) THEN "404" ELSE "ok"

\* a put_object that stores nothing
S3PutNothing(b, bucket, key, body, content_type) == b

S3Put(b, bucket, key, body, content_type) ==
    (<<bucket, key>> :> [Body |-> body, ContentType |-> content_type]) @@ b
\* a delete_object that removes nothing
S3DeleteNothing(b, bucket, key) == b

S3Delete(b, bucket, key) == [k \in DOMAIN b \ {<<bucket, key>>} |-> b[k]]

HasItem(t, image_id) == image_id \in DOMAIN t
PutItem(t, item) == (item.image_id :> item) @@ t
DeleteItem(t, image_id) == [i \in DOMAIN t \ {image_id} |-> t[i]]

----------------------------------------------------------------------------
(* Inputs.  An input profile names the sets the arguments are drawn from.   *)

PngA == PngSig \o <<2, 2>>
JpegB == JpegSig \o <<3, 2>>
GifC == GifSig \o <<1, 1>>
Txt == <<104, 105>>

\* base64 texts: PngA; PngA with a character outside the alphabet in it;
\* PngA with one "=" missing; Txt; the empty text is <<>>
B64PngA == <<34, 21, 1, 14, 17, 48, 52, 10, 6, 32, 40, 2, 0, 32, 64, 64>>
B64Junk == <<34, 21, 1, 14, 65, 17, 48, 52, 10, 6, 32, 40, 2, 0, 32, 64, 64>>
B64NoPad == <<34, 21, 1, 14, 17, 48, 52, 10, 6, 32, 40, 2, 0, 32, 64>>
B64Txt == <<26, 6, 36, 64>>

NoExtra == [title |-> NoneV, description |-> NoneV, tags |-> NoneV, metadata |-> NoneV]

LifecycleInputs ==
    [users |-> {"a"}, filenames |-> {"c/f"},
     ctypes |-> {"image/png"},
     payloads |-> {PngA},
     b64s |-> {B64PngA},
     extras |-> {NoExtra}, times |-> {1}, finTimes |-> {2},
     finUsers |-> {"a"}, finFiles |-> {"f", "c/f"}, finCtypes |-> {NoneV},
     externalIds |-> {"i1/c"}, directIds |-> {"x"}, directFiles |-> {"f"}, directData |-> {GifC, Txt},
     maxUuid |-> MaxUuid,
     oks |-> BOOLEAN]

\* one client, every way a create can be refused
IngestInputs ==
    [LifecycleInputs EXCEPT
        !.users = {"a", ""}, !.filenames = {"f", ""}, !.ctypes = {"image/png", ""},
        !.payloads = {PngA, JpegB, GifC, Txt},
        !.b64s = {B64PngA, B64Junk, B64NoPad, B64Txt, <<>>},
        !.externalIds = {}]

Tagged(tags) == [NoExtra EXCEPT !.tags = tags]

\* the arguments of a call of list_images
ListArgs(user_id, tag, created_after, created_before) ==
    [user_id |-> user_id, tag |-> tag, created_after |-> created_after,
     created_before |-> created_before]

\* one client, records of two users with and without tags, and the arguments
\* of list_images
ListInputs ==
    [LifecycleInputs EXCEPT
        !.users = {"a", "b"}, !.filenames = {"f"},
        !.extras = {Tagged(NoneV), Tagged(Some(<<"t2", "t1">>)), Tagged(Some(<<"t2">>))},
        !.times = {1, 2}, !.maxUuid = MaxRecords, !.oks = {TRUE}]
    @@ [listArgs |->
            {ListArgs(Some("a"), NoneV, NoneV, NoneV)}
            \cup {ListArgs(u, t, NoneV, NoneV) : u \in {NoneV, Some("a")},
                                                 t \in {Some(""), Some("t1")}}
            \cup {ListArgs(u, NoneV, ab[1], ab[2]) :
                     u \in {NoneV, Some("a")},
                     ab \in {<<Some(2), NoneV>>, <<NoneV, Some(0)>>, <<NoneV, Some(1)>>,
                             <<Some(2), Some(2)>>}}]

\* one client, records of two users with and without a tag, and lists in both
\* modes with and without the tag
PagingInputs ==
    [ListInputs EXCEPT
        !.extras = {Tagged(NoneV), Tagged(Some(<<"t1">>))}, !.times = {1},
        !.listArgs = {ListArgs(u, t, NoneV, NoneV) : u \in {NoneV, Some("a")},
                                                    t \in {NoneV, Some("t1")}}]

\* one client of the deferred upload: objects put straight into the bucket,
\* images or not, and finalized afterwards
DeferredInputs ==
    [LifecycleInputs EXCEPT
        !.filenames = {"f"}, !.finFiles = {"f"},
        !.finCtypes = {NoneV, Some("image/gif")}, !.externalIds = {"x"}]

\* two clients creating at the same time under one user_id and filename, the
\* stores answering every call
ConcurrentInputs ==
    [LifecycleInputs EXCEPT
        !.filenames = {"f"}, !.ctypes = {"image/png", "image/jpeg"},
        !.payloads = {PngA, JpegB}, !.times = {1, 2},
        !.maxUuid = MaxCreates, !.oks = {TRUE}, !.externalIds = {}]

\* the identifiers uuid4 has produced so far
Issued == {Uuid(n) : n \in 1..nextUuid}

\* identifiers a caller may pass to delete, download, presigned access, finalize:
\* those uuid4 produced and those of the profile that it did not produce
KnownIds(P) == Issued \cup P.externalIds

----------------------------------------------------------------------------
(* State *)

NoLocals == [none |-> TRUE]

\* A response: the operation, the store call (or "validate") at which it ended,
\* its status, the request it answers (of) and the value returned (None when
\* the operation raised or returns nothing).  The request of a list_images
\* says whether the loop continued after a LastEvaluatedKey.
Result(op, call, status, of, value) ==
    [op |-> op, call |-> call, status |-> status, of |-> of, value |-> value]

NoResult == Result("none", "none", "none", NoLocals, NoneV)

Init ==
    /\ blobs = <<>>
    /\ table = <<>>
    /\ pc = [r \in Requests |-> "idle"]
    /\ loc = [r \in Requests |-> NoLocals]
    /\ ret = NoResult
    /\ nextUuid = 0
    /\ uploads = 0
    /\ usedKeys = {}
    /\ supplied = <<>>
    /\ assigned = {}

\* the operation of slot r ends, returning or raising res
Finish(r, res) ==
    /\ pc' = [pc EXCEPT ![r] = "idle"]
    /\ loc' = [loc EXCEPT ![r] = NoLocals]
    /\ ret' = res

\* the operation of slot r goes on to its store call at label l with locals lv
Goto(r, l, lv) ==
    /\ pc' = [pc EXCEPT ![r] = l]
    /\ loc' = [loc EXCEPT ![r] = lv]
    /\ ret' = NoResult

Forget(image_id) == [i \in DOMAIN supplied \ {image_id} |-> supplied[i]]

----------------------------------------------------------------------------
(* create: _store_image, entered from put_image_bytes or put_image *)

\* validation, identity, s3.put_object; args is the request as the caller made it
StoreImage(r, op, args, data, extra, now, ok, maxUuid) ==
    LET err == ValidateStore(args.user_id, args.filename, args.content_type, data) IN
    \/ /\ err # ""
       /\ Finish(r, Result(op, "validate", err, args, NoneV))
       /\ UNCHANGED <<blobs, table, nextUuid, uploads, usedKeys, supplied, assigned>>
    \/ /\ err = ""
       /\ nextUuid < maxUuid
       /\ nextUuid' = nextUuid + 1
       /\ LET item == StoreItem(args.user_id, Uuid(nextUuid + 1), now, args.filename,
                                args.content_type, data, extra)
          IN  IF ok
              THEN /\ blobs' = S3Put(blobs, BucketName, item.object_key, data,
                                     args.content_type)
                   /\ usedKeys' = usedKeys \cup {<<BucketName, item.object_key>>}
                   /\ Goto(r, "put_item",
                           [op |-> op, args |-> args, item |-> item, data |-> data])
              ELSE /\ Finish(r, Result(op, "put_object", "store_error",
                                       [image_id |-> item.image_id] @@ args, NoneV))
                   /\ UNCHANGED <<blobs, usedKeys>>
       /\ UNCHANGED <<table, uploads, supplied, assigned>>

PutImageBytes(r, P) ==
    /\ pc[r] = "idle"
    /\ \E user_id \in P.users, filename \in P.filenames, content_type \in P.ctypes,
          data \in P.payloads, extra \in P.extras, now \in P.times, ok \in P.oks :
          StoreImage(r, "put_image_bytes",
                     [user_id |-> user_id, filename |-> filename,
                      content_type |-> content_type, data |-> data],
                     data, extra, now, ok, P.maxUuid)

PutImage(r, P) ==
    /\ pc[r] = "idle"
    /\ \E user_id \in P.users, filename \in P.filenames, content_type \in P.ctypes,
          data_base64 \in P.b64s, extra \in P.extras, now \in P.times, ok \in P.oks :
          LET args == [user_id |-> user_id, filename |-> filename,
                       content_type |-> content_type, data_base64 |-> data_base64]
              dec == B64Decode(data_base64)
          IN  IF user_id = "" \/ filename = "" \/ content_type = "" \/ data_base64 = <<>>
              THEN /\ Finish(r, Result("put_image", "validate",
                                       "missing_required_fields", args, NoneV))
                   /\ UNCHANGED <<blobs, table, nextUuid, uploads, usedKeys, supplied, assigned>>
              ELSE IF ~dec.ok
              THEN /\ Finish(r, Result("put_image", "validate", "invalid_base64",
                                       args, NoneV))
                   /\ UNCHANGED <<blobs, table, nextUuid, uploads, usedKeys, supplied, assigned>>
              ELSE StoreImage(r, "put_image", args, dec.bytes, extra, now, ok, P.maxUuid)

\* a create that removes its blob when table.put_item failed
StorePutItemCompensating(r, P) ==
    /\ pc[r] = "put_item"
    /\ \E ok \in P.oks :
          LET item == loc[r].item IN
          /\ table' = IF ok THEN PutItem(table, item) ELSE table
          /\ blobs' = IF ok THEN blobs ELSE S3Delete(blobs, BucketName, item.object_key)
          /\ supplied' = IF ok THEN (item.image_id :> loc[r].data) @@ supplied
                         ELSE supplied
          /\ assigned' = IF ok THEN assigned \cup {item.image_id} ELSE assigned
          /\ Finish(r, Result(loc[r].op, "put_item", IF ok THEN "ok" ELSE "store_error",
                              [image_id |-> item.image_id] @@ loc[r].args,
                              IF ok THEN Some([image_id |-> item.image_id,
                                               url |-> PresignedUrl(BucketName,
                                                                    item.object_key,
                                                                    NoneV)])
                              ELSE NoneV))
    /\ UNCHANGED <<nextUuid, uploads, usedKeys>>

\* table.put_item and the presigned url
StorePutItem(r, P) ==
    /\ pc[r] = "put_item"
    /\ \E ok \in P.oks :
          LET item == loc[r].item IN
          IF ok
          THEN /\ table' = PutItem(table, item)
               /\ supplied' = (item.image_id :> loc[r].data) @@ supplied
               /\ assigned' = assigned \cup {item.image_id}
               /\ Finish(r, Result(loc[r].op, "put_item", "ok",
                                   [image_id |-> item.image_id] @@ loc[r].args,
                                   Some([image_id |-> item.image_id,
                                         url |-> PresignedUrl(BucketName, item.object_key,
                                                              NoneV)])))
          ELSE /\ Finish(r, Result(loc[r].op, "put_item", "store_error",
                                   [image_id |-> item.image_id] @@ loc[r].args, NoneV))
               /\ UNCHANGED <<table, supplied, assigned>>
    /\ UNCHANGED <<blobs, nextUuid, uploads, usedKeys>>

----------------------------------------------------------------------------
(* delete_image *)

\* table.get_item
DeleteImageGet(r, P) ==
    /\ pc[r] = "idle"
    /\ \E image_id \in KnownIds(P), ok \in P.oks :
          LET of == [image_id |-> image_id] IN
          IF ~ok
          THEN Finish(r, Result("delete_image", "get_item", "store_error", of, NoneV))
          ELSE IF ~HasItem(table, image_id)
          THEN Finish(r, Result("delete_image", "get_item", "not_found", of, NoneV))
          ELSE Goto(r, "delete_object",
                    [image_id |-> image_id, bucket |-> table[image_id].bucket_name,
                     key |-> table[image_id].object_key])
    /\ UNCHANGED <<blobs, table, nextUuid, uploads, usedKeys, supplied, assigned>>

\* a delete that goes on to the record when s3.delete_object failed
DeleteImageObjectIgnoringFailure(r, P) ==
    /\ pc[r] = "delete_object"
    /\ \E ok \in P.oks :
          /\ blobs' = IF ok THEN S3Delete(blobs, loc[r].bucket, loc[r].key) ELSE blobs
          /\ supplied' = IF ok THEN Forget(loc[r].image_id) ELSE supplied
          /\ Goto(r, "delete_item", loc[r])
    /\ UNCHANGED <<table, nextUuid, uploads, usedKeys, assigned>>

\* s3.delete_object
DeleteImageObject(r, P) ==
    /\ pc[r] = "delete_object"
    /\ \E ok \in P.oks :
          IF ok
          THEN /\ blobs' = S3Delete(blobs, loc[r].bucket, loc[r].key)
               /\ supplied' = Forget(loc[r].image_id)
               /\ Goto(r, "delete_item", loc[r])
          ELSE /\ Finish(r, Result("delete_image", "delete_object", "store_error",
                                   loc[r], NoneV))
               /\ UNCHANGED <<blobs, supplied>>
    /\ UNCHANGED <<table, nextUuid, uploads, usedKeys, assigned>>

\* table.delete_item
DeleteImageItem(r, P) ==
    /\ pc[r] = "delete_item"
    /\ \E ok \in P.oks :
          IF ok
          THEN /\ table' = DeleteItem(table, loc[r].image_id)
               /\ Finish(r, Result("delete_image", "delete_item", "ok", loc[r], NoneV))
          ELSE /\ Finish(r, Result("delete_image", "delete_item", "store_error",
                                   loc[r], NoneV))
               /\ UNCHANGED table
    /\ UNCHANGED <<blobs, nextUuid, uploads, usedKeys, supplied, assigned>>

----------------------------------------------------------------------------
(* get_image_stream *)

\* a or b or c on strings
Or3(a, b, c) == IF a # "" THEN a ELSE IF b # "" THEN b ELSE c

\* table.get_item
GetImageStreamItem(r, P) ==
    /\ pc[r] = "idle"
    /\ \E image_id \in KnownIds(P), ok \in P.oks :
          LET of == [image_id |-> image_id] IN
          IF ~ok
          THEN Finish(r, Result("get_image_stream", "get_item", "store_error", of, NoneV))
          ELSE IF ~HasItem(table, image_id)
          THEN Finish(r, Result("get_image_stream", "get_item", "not_found", of, NoneV))
          ELSE Goto(r, "get_object",
                    [image_id |-> image_id, bucket |-> table[image_id].bucket_name,
                     key |-> table[image_id].object_key,
                     filename |-> table[image_id].filename,
                     content_type |-> table[image_id].content_type])
    /\ UNCHANGED <<blobs, table, nextUuid, uploads, usedKeys, supplied, assigned>>

\* s3.get_object
GetImageStreamObject(r, P) ==
    /\ pc[r] = "get_object"
    /\ \E ok \in P.oks :
          LET of == [image_id |-> loc[r].image_id] IN
          IF ~ok
          THEN Finish(r, Result("get_image_stream", "get_object", "store_error", of, NoneV))
          ELSE IF ~HasBlob(blobs, loc[r].bucket, loc[r].key)
          THEN Finish(r, Result("get_image_stream", "get_object", "NoSuchKey", of, NoneV))
          ELSE LET obj == blobs[<<loc[r].bucket, loc[r].key>>] IN
               Finish(r, Result("get_image_stream", "get_object", "ok", of,
                          Some([body |-> obj.Body,
                                content_type |-> Or3(obj.ContentType, loc[r].content_type,
                                                     "application/octet-stream"),
                                content_length |-> Len(obj.Body),
                                filename |-> loc[r].filename,
                                bucket |-> loc[r].bucket, key |-> loc[r].key])))
    /\ UNCHANGED <<blobs, table, nextUuid, uploads, usedKeys, supplied, assigned>>

----------------------------------------------------------------------------
(* presigned_get *)

ContentDisposition(download, filename) ==
    (IF download THEN "attachment" ELSE "inline") \o "; filename=\"" \o filename \o "\""

PresignedGet(r, P) ==
    /\ pc[r] = "idle"
    /\ \E image_id \in KnownIds(P), download \in BOOLEAN, ok \in P.oks :
          LET of == [image_id |-> image_id, download |-> download] IN
          IF ~ok
          THEN Finish(r, Result("presigned_get", "get_item", "store_error", of, NoneV))
          ELSE IF ~HasItem(table, image_id)
          THEN Finish(r, Result("presigned_get", "get_item", "not_found", of, NoneV))
          ELSE LET item == table[image_id] IN
               Finish(r, Result("presigned_get", "get_item", "ok", of,
                          Some([url |-> PresignedUrl(item.bucket_name, item.object_key,
                                   Some(ContentDisposition(download, item.filename)))])))
    /\ UNCHANGED <<blobs, table, nextUuid, uploads, usedKeys, supplied, assigned>>

----------------------------------------------------------------------------
(* finalize_image, and the direct upload that precedes it *)

\* an item that has auto_metadata whatever the extraction yields
FinalizeItemAlwaysAuto(user_id, image_id, created_at, filename, content_type, head, data, extra) ==
    [image_id |-> image_id, user_id |-> user_id, created_at |-> created_at,
     filename |-> filename,
     content_type |-> Or3(IF IsNone(content_type) THEN "" ELSE Val(content_type),
                          head.ContentType, "application/octet-stream"),
     size |-> head.ContentLength,
     bucket_name |-> BucketName,
     object_key |-> ObjectKey(user_id, image_id, filename),
     auto_metadata |-> ExtractImageMetadata(data)]
    @@ OptField("user_metadata", extra.metadata)
    @@ OptField("title", extra.title)
    @@ OptField("description", extra.description)
    @@ OptField("tags", extra.tags)

\* the item finalize_image assembles
FinalizeItem(user_id, image_id, created_at, filename, content_type, head, data, extra) ==
    [image_id |-> image_id, user_id |-> user_id, created_at |-> created_at,
     filename |-> filename,
     content_type |-> Or3(IF IsNone(content_type) THEN "" ELSE Val(content_type),
                          head.ContentType, "application/octet-stream"),
     size |-> head.ContentLength,
     bucket_name |-> BucketName,
     object_key |-> ObjectKey(user_id, image_id, filename)]
    @@ OptField("auto_metadata", ExtractImageMetadata(data))
    @@ OptField("user_metadata", extra.metadata)
    @@ OptField("title", extra.title)
    @@ OptField("description", extra.description)
    @@ OptField("tags", extra.tags)

\* a probe whose failure is passed on as the store reported it
FinalizeProbeRaw(outcome) == IF outcome = "404" THEN "NoSuchKey" ELSE outcome

\* try: head_object / except Exception: raise KeyError
FinalizeProbe(outcome) == IF outcome = "ok" THEN "ok" ELSE "not_found"

\* s3.head_object
FinalizeHead(r, P) ==
    /\ pc[r] = "idle"
    /\ \E user_id \in P.finUsers, image_id \in KnownIds(P), filename \in P.finFiles,
          content_type \in P.finCtypes, extra \in P.extras, ok \in P.oks :
          LET key == ObjectKey(user_id, image_id, filename)
              probe == FinalizeProbe(HeadObject(blobs, BucketName, key, ok))
          IN  IF probe # "ok"
              THEN Finish(r, Result("finalize_image", "head_object", probe,
                                    [image_id |-> image_id, key |-> key], NoneV))
              ELSE Goto(r, "finalize_get",
                    [user_id |-> user_id, image_id |-> image_id,
                     filename |-> filename, content_type |-> content_type,
                     extra |-> extra, key |-> key,
                     head |-> [ContentLength |-> Len(blobs[<<BucketName, key>>].Body),
                               ContentType |-> blobs[<<BucketName, key>>].ContentType]])
    /\ UNCHANGED <<blobs, table, nextUuid, uploads, usedKeys, supplied, assigned>>

\* s3.get_object, the extraction, time.time()
FinalizeGet(r, P) ==
    /\ pc[r] = "finalize_get"
    /\ \E ok \in P.oks, now \in P.finTimes :
          LET l == loc[r]
              of == [image_id |-> l.image_id, key |-> l.key]
          IN  IF ~ok
              THEN Finish(r, Result("finalize_image", "get_object", "store_error",
                                    of, NoneV))
              ELSE IF ~HasBlob(blobs, BucketName, l.key)
              THEN Finish(r, Result("finalize_image", "get_object", "NoSuchKey",
                                    of, NoneV))
              ELSE Goto(r, "finalize_put",
                        [key |-> l.key,
                         item |-> FinalizeItem(l.user_id, l.image_id, now, l.filename,
                                               l.content_type, l.head,
                                               blobs[<<BucketName, l.key>>].Body,
                                               l.extra)])
    /\ UNCHANGED <<blobs, table, nextUuid, uploads, usedKeys, supplied, assigned>>

\* table.put_item
FinalizePut(r, P) ==
    /\ pc[r] = "finalize_put"
    /\ \E ok \in P.oks :
          LET of == [image_id |-> loc[r].item.image_id, key |-> loc[r].key] IN
          IF ok
          THEN /\ table' = PutItem(table, loc[r].item)
               /\ supplied' = Forget(loc[r].item.image_id)
               /\ assigned' = assigned \cup {loc[r].item.image_id}
               /\ Finish(r, Result("finalize_image", "put_item", "ok", of,
                                   Some([image_id |-> loc[r].item.image_id])))
          ELSE /\ Finish(r, Result("finalize_image", "put_item", "store_error",
                                   of, NoneV))
               /\ UNCHANGED <<table, supplied, assigned>>
    /\ UNCHANGED <<blobs, nextUuid, uploads, usedKeys>>

\* a client uploads an object straight to the bucket, at a key nothing was
\* written to before
DirectUpload(P) ==
    /\ uploads < MaxDirect
    /\ \E user_id \in P.finUsers, image_id \in Issued \cup P.directIds,
          filename \in P.directFiles, data \in P.directData :
          LET key == ObjectKey(user_id, image_id, filename) IN
          /\ <<BucketName, key>> \notin usedKeys
          /\ blobs' = S3Put(blobs, BucketName, key, data, "binary/octet-stream")
          /\ usedKeys' = usedKeys \cup {<<BucketName, key>>}
    /\ uploads' = uploads + 1
    /\ ret' = NoResult
    /\ UNCHANGED <<table, pc, loc, nextUuid, supplied, assigned>>

----------------------------------------------------------------------------
(* list_images: a loop of table.query (user_id given) or table.scan pages *)

\* a key condition that forgets whose records are asked for
KeyConditionAnyUser(item, user_id, created_after, created_before) ==
    /\ IsNone(created_after) \/ item.created_at >= Val(created_after)
    /\ IsNone(created_before) \/ item.created_at <= Val(created_before)

\* Key("user_id").eq(user_id), and the range on created_at that the bounds
\* given select: between, gte, lte, all inclusive
KeyCondition(item, user_id, created_after, created_before) ==
    /\ item.user_id = user_id
    /\ IF ~IsNone(created_after) /\ ~IsNone(created_before)
       THEN Val(created_after) <= item.created_at /\ item.created_at <= Val(created_before)
       ELSE IF ~IsNone(created_after) THEN item.created_at >= Val(created_after)
       ELSE IF ~IsNone(created_before) THEN item.created_at <= Val(created_before)
       ELSE TRUE

\* a containment that looks at the first tag only
TagFilterFirst(item, tag) ==
    Truthy(tag) => "tags" \in DOMAIN item /\ item.tags # <<>> /\ item.tags[1] = Val(tag)

\* if tag: Attr("tags").contains(tag), false of an item without tags
TagFilter(item, tag) ==
    Truthy(tag) => /\ "tags" \in DOMAIN item
                   /\ \E k \in 1..Len(item.tags) : item.tags[k] = Val(tag)

\* a scan filter whose bounds are exclusive
ScanFilterExclusive(item, tag, created_after, created_before) ==
    /\ TagFilter(item, tag)
    /\ IsNone(created_after) \/ item.created_at > Val(created_after)
    /\ IsNone(created_before) \/ item.created_at < Val(created_before)

\* the filter of the scan: tag containment and the bounds given, all inclusive
ScanFilter(item, tag, created_after, created_before) ==
    /\ TagFilter(item, tag)
    /\ IsNone(created_after) \/ item.created_at >= Val(created_after)
    /\ IsNone(created_before) \/ item.created_at <= Val(created_before)

\* the order the store reads items in: by_user_created reads a user's items by
\* created_at, the scan reads the table in a fixed order of its own
UuidIndex(image_id) ==
    IF \E n \in 1..nextUuid : Uuid(n) = image_id
    THEN CHOOSE n \in 1..nextUuid : Uuid(n) = image_id
    ELSE 0

ReadRank(t, image_id, indexed) ==
    IF indexed THEN t[image_id].created_at * 1000 + UuidIndex(image_id)
    ELSE 1000 - UuidIndex(image_id)

RECURSIVE ReadOrder(_, _, _)
ReadOrder(t, ids, indexed) ==
    IF ids = {} THEN <<>>
    ELSE LET first == CHOOSE i \in ids :
                          \A j \in ids : ReadRank(t, i, indexed) <= ReadRank(t, j, indexed)
         IN  <<first>> \o ReadOrder(t, ids \ {first}, indexed)

\* the image_ids a query or a scan with these arguments reads, in order
Candidates(t, l) ==
    IF l.indexed
    THEN ReadOrder(t, {i \in DOMAIN t : KeyCondition(t[i], Val(l.user_id), l.created_after,
                                                     l.created_before)}, TRUE)
    ELSE ReadOrder(t, DOMAIN t, FALSE)

\* what a page is filtered by
PageFilter(item, l) ==
    IF l.indexed THEN TagFilter(item, l.tag)
    ELSE ScanFilter(item, l.tag, l.created_after, l.created_before)

\* a store that ignores ExclusiveStartKey and reads from the beginning
PageStartIgnoringKey(cand, esk) == 0

\* the position in cand after which the page starts: after ExclusiveStartKey
PageStart(cand, esk) ==
    IF IsNone(esk) THEN 0 ELSE CHOOSE k \in 1..Len(cand) : cand[k] = Val(esk)

\* one table.query or table.scan: the store reads between 1 and MaxPage of the
\* items after ExclusiveStartKey (none when none is left), returns those the
\* filter keeps, and returns LastEvaluatedKey when it stopped before the end,
\* or when it may (more) at the end; the loop goes on while there is one.
\* cand, start, stop, more are bound by \E so that each is evaluated once.
ListPage(r, l, ok) ==
    \E cand \in {Candidates(table, l)} :
    \E start \in {PageStart(cand, l.esk)} :
    \E stop \in (IF start = Len(cand) THEN {start}
                 ELSE {k \in start + 1 .. Len(cand) : k <= start + MaxPage}) :
    \E more \in (IF stop = Len(cand) /\ stop > start THEN BOOLEAN ELSE {FALSE}) :
    LET of == [continued |-> l.pages > 0]
                  @@ ListArgs(l.user_id, l.tag, l.created_after, l.created_before)
        call == IF l.indexed THEN "query" ELSE "scan"
        read == SubSeq(cand, start + 1, stop)
        kept == SelectSeq(read, LAMBDA i : PageFilter(table[i], l))
        items == l.items \o [k \in 1..Len(kept) |-> table[kept[k]]]
        last == IF stop < Len(cand) \/ more THEN Some(cand[stop]) ELSE NoneV
    IN  IF ~ok
        THEN Finish(r, Result("list_images", call, "store_error", of, NoneV))
        ELSE IF IsNone(last)
        THEN Finish(r, Result("list_images", call, "ok", of, Some(items)))
        ELSE Goto(r, call, [l EXCEPT !.items = items, !.esk = last, !.pages = l.pages + 1])

\* list_images up to the answer to its first page
ListImages(r, P) ==
    /\ pc[r] = "idle"
    /\ \E args \in P.listArgs, ok \in P.oks :
          ListPage(r, [indexed |-> Truthy(args.user_id), items |-> <<>>, esk |-> NoneV,
                       pages |-> 0] @@ args, ok)
    /\ UNCHANGED <<blobs, table, nextUuid, uploads, usedKeys, supplied, assigned>>

\* the next table.query of the loop
ListQueryNext(r, P) ==
    /\ pc[r] = "query"
    /\ \E ok \in P.oks : ListPage(r, loc[r], ok)
    /\ UNCHANGED <<blobs, table, nextUuid, uploads, usedKeys, supplied, assigned>>

\* the next table.scan of the loop
ListScanNext(r, P) ==
    /\ pc[r] = "scan"
    /\ \E ok \in P.oks : ListPage(r, loc[r], ok)
    /\ UNCHANGED <<blobs, table, nextUuid, uploads, usedKeys, supplied, assigned>>

----------------------------------------------------------------------------
(* Status mapping of the HTTP surface (routers/images.py) *)

\* a mapping that does not tell a missing record from a failure
HttpStatusNoKeyError(status) ==
    CASE status = "ok" -> 200
      [] status \in {"unsupported_image_type", "missing_required_fields",
                     "invalid_base64"} -> 400
      [] OTHER -> 500

HttpStatus(status) ==
    CASE status = "ok" -> 200
      [] status = "not_found" -> 404
      [] status \in {"unsupported_image_type", "missing_required_fields",
                     "invalid_base64"} -> 400
      [] OTHER -> 500

----------------------------------------------------------------------------
(* The service: concurrent requests over the two stores *)

Next ==
    \/ \E r \in Requests : PutImageBytes(r, LifecycleInputs)
    \/ \E r \in Requests : PutImage(r, LifecycleInputs)
    \/ \E r \in Requests : StorePutItem(r, LifecycleInputs)
    \/ \E r \in Requests : DeleteImageGet(r, LifecycleInputs)
    \/ \E r \in Requests : DeleteImageObject(r, LifecycleInputs)
    \/ \E r \in Requests : DeleteImageItem(r, LifecycleInputs)
    \/ \E r \in Requests : GetImageStreamItem(r, LifecycleInputs)
    \/ \E r \in Requests : GetImageStreamObject(r, LifecycleInputs)
    \/ \E r \in Requests : PresignedGet(r, LifecycleInputs)
    \/ \E r \in Requests : FinalizeHead(r, LifecycleInputs)
    \/ \E r \in Requests : FinalizeGet(r, LifecycleInputs)
    \/ \E r \in Requests : FinalizePut(r, LifecycleInputs)

Spec == Init /\ [][Next]_vars

\* one client creating and deleting, with every kind of request create refuses
NextIngest ==
    \/ PutImageBytes("r1", IngestInputs)
    \/ PutImage("r1", IngestInputs)
    \/ StorePutItem("r1", IngestInputs)
    \/ DeleteImageGet("r1", IngestInputs)
    \/ DeleteImageObject("r1", IngestInputs)
    \/ DeleteImageItem("r1", IngestInputs)

SpecIngest == Init /\ [][NextIngest]_vars

\* one client creating records and listing them
NextList ==
    \/ PutImageBytes("r1", ListInputs)
    \/ StorePutItem("r1", ListInputs)
    \/ ListImages("r1", ListInputs)
    \/ ListQueryNext("r1", ListInputs)
    \/ ListScanNext("r1", ListInputs)

SpecList == Init /\ [][NextList]_vars

\* one client creating records and listing them page by page
NextPaging ==
    \/ PutImageBytes("r1", PagingInputs)
    \/ StorePutItem("r1", PagingInputs)
    \/ ListImages("r1", PagingInputs)
    \/ ListQueryNext("r1", PagingInputs)
    \/ ListScanNext("r1", PagingInputs)

\* list_images is a synchronous loop: once it has a LastEvaluatedKey the
\* running call issues its next query or scan
SpecListFair ==
    /\ Init /\ [][NextPaging]_vars
    /\ WF_vars(ListQueryNext("r1", PagingInputs))
    /\ WF_vars(ListScanNext("r1", PagingInputs))

\* one client creating, uploading directly, finalizing, reading and deleting
NextDeferred ==
    \/ DirectUpload(DeferredInputs)
    \/ PutImageBytes("r1", DeferredInputs)
    \/ StorePutItem("r1", DeferredInputs)
    \/ FinalizeHead("r1", DeferredInputs)
    \/ FinalizeGet("r1", DeferredInputs)
    \/ FinalizePut("r1", DeferredInputs)
    \/ GetImageStreamItem("r1", DeferredInputs)
    \/ GetImageStreamObject("r1", DeferredInputs)
    \/ DeleteImageGet("r1", DeferredInputs)
    \/ DeleteImageObject("r1", DeferredInputs)
    \/ DeleteImageItem("r1", DeferredInputs)

SpecDeferred == Init /\ [][NextDeferred]_vars

\* two clients creating at the same time
NextConcurrent ==
    \/ \E r \in Requests : PutImageBytes(r, ConcurrentInputs)
    \/ \E r \in Requests : StorePutItem(r, ConcurrentInputs)

SpecConcurrent == Init /\ [][NextConcurrent]_vars

----------------------------------------------------------------------------
(* Properties of the lifecycle, under Spec *)

Idle == \A r \in Requests : pc[r] = "idle"

\* C1: whenever no operation is in progress, every record of the metadata
\* store has a blob in the blob store at its (bucket_name, object_key),
\* whatever creates, finalizes and deletes ran before and whichever of their
\* store calls failed.
C1_RecordHasBlob ==
    Idle => \A i \in DOMAIN table :
                HasBlob(blobs, table[i].bucket_name, table[i].object_key)

\* the response of a delete_image that returned
DeleteReturned == ret.op = "delete_image" /\ ret.status = "ok"

C2_Gone ==
    DeleteReturned => /\ ~HasItem(table, ret.of.image_id)
                      /\ ~HasBlob(blobs, ret.of.bucket, ret.of.key)

C2_Lookup ==
    /\ /\ ret'.op \in {"get_image_stream", "presigned_get", "delete_image"}
       /\ ret'.call = "get_item"
       /\ ~HasItem(table, ret'.of.image_id)
       => /\ ret'.status \in {"not_found", "store_error"}
          /\ IsNone(ret'.value)
    /\ \A r \in Requests :
          pc[r] = "idle" /\ pc'[r] \in {"get_object", "delete_object"}
          => HasItem(table, loc'[r].image_id)
    /\ \A i \in DOMAIN table' \ DOMAIN table :
          \E r \in Requests : /\ pc[r] \in {"put_item", "finalize_put"}
                              /\ loc[r].item.image_id = i

\* C2: when delete_image returns successfully, the record of its image_id is
\* gone and no blob is left at the (bucket_name, object_key) the record named;
\* from then on a download, a presigned access or a delete of an image_id that
\* has no record does not get past its lookup and ends not_found (unless the
\* lookup itself fails), and a record of an absent image_id appears only by
\* the put_item of a create or a finalize of that image_id.
C2_DeleteRemovesBoth == []C2_Gone /\ [][C2_Lookup]_vars

C2_Witness == DeleteReturned /\ ret.of.image_id \in Issued

C3_Step ==
    /\ /\ ret'.op = "delete_image"
       /\ ret'.call = "get_item"
       /\ ret'.status # "store_error"
       /\ ~HasItem(table, ret'.of.image_id)
       => /\ ret'.status = "not_found"
          /\ HttpStatus(ret'.status) = 404
          /\ table' = table
          /\ blobs' = blobs
    /\ \A r \in Requests :
          pc[r] = "idle" /\ pc'[r] = "delete_object" => HasItem(table, loc'[r].image_id)

\* C3: a delete_image of an image_id that has no record, when the metadata
\* store answers the lookup, ends not_found (HTTP 404), makes no further store
\* call, and leaves the blob store and the metadata store as they were.
C3_DeleteMissing == [][C3_Step]_vars

C3_Witness ==
    /\ ret.op = "delete_image" /\ ret.status = "not_found"
    /\ ~HasItem(table, ret.of.image_id)
    /\ blobs # <<>>

\* C5: a download of an image_id whose create supplied the bytes B, no delete
\* and no finalize of that image_id having acted since, returns a stream whose
\* content is B, whenever the stores answer.
C5_RoundTrip ==
    /\ ret.op = "get_image_stream"
    /\ ret.of.image_id \in DOMAIN supplied
    /\ ret.status # "store_error"
    => /\ ret.status = "ok"
       /\ Val(ret.value).body = supplied[ret.of.image_id]

\* C6: every record of the metadata store, written by put_image_bytes, by
\* put_image or by finalize_image, is stored under its own image_id and has
\* object_key = user_id + "/" + image_id + "/" + filename of its own fields.
C6_ObjectKeyOfFields ==
    \A i \in DOMAIN table :
        /\ table[i].image_id = i
        /\ table[i].object_key =
              table[i].user_id \o "/" \o table[i].image_id \o "/" \o table[i].filename

C6_Witness ==
    /\ "i1" \in DOMAIN table
    /\ "i1/c" \in DOMAIN table
    /\ table["i1"].object_key = table["i1/c"].object_key

FinalizeMissed(call) ==
    /\ ret'.op = "finalize_image"
    /\ ret'.call = call
    /\ ret'.status # "store_error"
    /\ ~HasBlob(blobs, BucketName, ret'.of.key)

\* C10 as stated: a finalize_image that finds no blob at its key, at the
\* existence probe or at the body read that follows it, ends not_found and
\* writes no record.
C10_MissingIsNotFound ==
    [][FinalizeMissed("head_object") \/ FinalizeMissed("get_object")
       => ret'.status = "not_found" /\ table' = table]_vars

C10_Step ==
    /\ FinalizeMissed("head_object") => ret'.status = "not_found" /\ table' = table
    /\ FinalizeMissed("get_object") => ret'.status = "NoSuchKey" /\ table' = table
    /\ \A r \in Requests :
          /\ pc[r] = "idle" /\ pc'[r] = "finalize_get"
             => HasBlob(blobs, BucketName, loc'[r].key)
          /\ pc[r] = "finalize_get" /\ pc'[r] = "finalize_put"
             => HasBlob(blobs, BucketName, loc[r].key)

\* C10: a finalize_image whose existence probe finds no blob at
\* {user_id}/{image_id}/{filename} ends not_found and writes no record; one
\* whose blob is removed between the probe and the body read ends with the
\* blob store's NoSuchKey error, not with not_found, and writes no record
\* either; a finalize goes on to its put_item only after both calls found the
\* blob.
C10_ProbeNotFoundReadNoSuchKey == [][C10_Step]_vars

C10_Witness ==
    /\ ret.op = "finalize_image" /\ ret.call = "get_object" /\ ret.status = "NoSuchKey"
    /\ ~HasBlob(blobs, BucketName, ret.of.key)
    /\ ret.of.image_id \notin DOMAIN table

----------------------------------------------------------------------------
(* Properties of validation, under SpecIngest *)

EmptyField(q) == q.user_id = "" \/ q.filename = "" \/ q.content_type = ""

\* the client-fault errors that correspond to what is wrong with request q
FaultsOf(op, q) ==
    IF op = "put_image_bytes"
    THEN (IF ValidateUnsupported(q.data) THEN {"unsupported_image_type"} ELSE {})
         \cup (IF EmptyField(q) THEN {"missing_required_fields"} ELSE {})
    ELSE (IF EmptyField(q) \/ q.data_base64 = <<>>
          THEN {"missing_required_fields"} ELSE {})
         \cup (IF ~B64Decode(q.data_base64).ok THEN {"invalid_base64"}
               ELSE IF ValidateUnsupported(B64Decode(q.data_base64).bytes)
               THEN {"unsupported_image_type"} ELSE {})

C4_Step ==
    /\ ret'.call = "validate"
       => /\ ret'.status \in FaultsOf(ret'.op, ret'.of)
          /\ HttpStatus(ret'.status) = 400
          /\ IsNone(ret'.value)
          /\ blobs' = blobs
          /\ table' = table
    /\ ret'.call = "put_object" => FaultsOf(ret'.op, ret'.of) = {}
    /\ \A r \in Requests :
          pc[r] = "idle" /\ pc'[r] = "put_item" => FaultsOf(loc'[r].op, loc'[r].args) = {}

\* C4: a put_image_bytes or put_image whose request has a fault (bytes that
\* are no image, an image that is neither JPEG nor PNG, an empty user_id,
\* filename or content_type, malformed base64) never gets to a store call: it
\* ends with a client-fault error that corresponds to a fault of the request
\* (HTTP 400), returns nothing, and leaves both stores as they were.
C4_RefusedBeforeAnyWrite == [][C4_Step]_vars

C4_Witness ==
    /\ ret.op = "put_image" /\ ret.call = "validate" /\ ret.status = "invalid_base64"
    /\ table # <<>>
    /\ blobs # <<>>

----------------------------------------------------------------------------
(* Properties of list_images, under SpecList *)

Range(seq) == {seq[k] : k \in 1..Len(seq)}
NoDuplicate(seq) == \A j, k \in 1..Len(seq) : j # k => seq[j] # seq[k]

ListReturned == ret.op = "list_images" /\ ret.status = "ok"

\* the records list_images is asked about: those of user_id when it is given
InScope(q) ==
    {table[i] : i \in {j \in DOMAIN table :
                          Truthy(q.user_id) => table[j].user_id = Val(q.user_id)}}

\* list_images returned exactly the set S of records, each once
ReturnedExactly(S) == NoDuplicate(Val(ret.value)) /\ Range(Val(ret.value)) = S

HasTag(item, T) == "tags" \in DOMAIN item /\ T \in Range(item.tags)

NoBounds(q) == IsNone(q.created_after) /\ IsNone(q.created_before)

\* C7: list_images(user_id=U) for a user id U (a non-empty string), with no
\* other filter, returns exactly the stored records whose user_id is U, each
\* once, however many pages the query took.
C7_ListOfUser ==
    ListReturned /\ Truthy(ret.of.user_id) /\ IsNone(ret.of.tag) /\ NoBounds(ret.of)
    => ReturnedExactly({table[i] : i \in {j \in DOMAIN table :
                                             table[j].user_id = Val(ret.of.user_id)}})

C7_Witness ==
    /\ ListReturned /\ Truthy(ret.of.user_id) /\ IsNone(ret.of.tag) /\ NoBounds(ret.of)
    /\ ret.of.continued
    /\ Len(Val(ret.value)) = 2

\* C8 as stated: for every tag T, the empty string included, list_images with
\* tag=T and no bounds returns exactly the records in scope (of user_id when
\* given, of all users otherwise) whose tags contain T.
C8_EveryTag ==
    ListReturned /\ ~IsNone(ret.of.tag) /\ NoBounds(ret.of)
    => ReturnedExactly({it \in InScope(ret.of) : HasTag(it, Val(ret.of.tag))})

\* C8: for every non-empty tag T, list_images(user_id=U, tag=T) returns
\* exactly the records of U whose tags contain T, and list_images(tag=T)
\* exactly the records of all users whose tags contain T, so that the scan's
\* result restricted to U is the query's result for U.
C8_NonEmptyTag ==
    ListReturned /\ Truthy(ret.of.tag) /\ NoBounds(ret.of)
    => ReturnedExactly({it \in InScope(ret.of) : HasTag(it, Val(ret.of.tag))})

C8_Witness ==
    /\ ListReturned /\ ret.of.tag = Some("t1") /\ IsNone(ret.of.user_id)
    /\ Len(Val(ret.value)) = 2
    /\ Val(ret.value)[1].user_id # Val(ret.value)[2].user_id

\* C9: with no tag, in the query of a user's records and in the scan alike,
\* list_images with created_after=A only returns exactly the records in scope
\* with created_at >= A, with created_before=B only those with created_at <= B,
\* with both (A <= B) those with A <= created_at <= B; a bound of 0 is a bound.
C9_InclusiveBounds ==
    ListReturned /\ IsNone(ret.of.tag) /\ ~NoBounds(ret.of)
    => ReturnedExactly(
           {it \in InScope(ret.of) :
               /\ IsNone(ret.of.created_after) \/ it.created_at >= Val(ret.of.created_after)
               /\ IsNone(ret.of.created_before) \/ it.created_at <= Val(ret.of.created_before)})

C9_Witness ==
    /\ ListReturned /\ IsNone(ret.of.tag)
    /\ ret.of.created_after = Some(2) /\ ret.of.created_before = Some(2)
    /\ Truthy(ret.of.user_id)
    /\ Len(Val(ret.value)) = 1
    /\ \E i \in DOMAIN table :
          table[i].user_id = Val(ret.of.user_id) /\ table[i].created_at = 1

----------------------------------------------------------------------------
(* Properties of the record's identity, under Spec *)

\* C11: while a record of an image_id exists, its user_id and its created_at
\* do not change, whatever operation takes a step.
C11_OwnerAndCreationFixed ==
    [][\A i \in DOMAIN table \cap DOMAIN table' :
          /\ table'[i].user_id = table[i].user_id
          /\ table'[i].created_at = table[i].created_at]_vars

\* C12: an image_id is given to at most one record over the whole history: a
\* record is never written, by a create or by a finalize, under an image_id
\* that no longer has a record but had one before.
C12_IdNeverReused ==
    [][\A i \in DOMAIN table' \ DOMAIN table : i \notin assigned]_vars

----------------------------------------------------------------------------
(* Properties of the order and the failures of the store calls, under
   SpecIngest *)

CreateOps == {"put_image_bytes", "put_image"}

\* C13: a create reaches table.put_item only with its blob written (the object
\* at its object_key holds the bytes of the call and no record of its image_id
\* exists yet); every record has an object_key a blob write succeeded under;
\* and a create that ends at s3.put_object has failed, leaving both stores as
\* they were, with no record of its image_id.
C13_Step ==
    /\ \A r \in Requests :
          pc[r] = "idle" /\ pc'[r] = "put_item"
          => /\ HasBlob(blobs', BucketName, loc'[r].item.object_key)
             /\ blobs'[<<BucketName, loc'[r].item.object_key>>].Body = loc'[r].data
             /\ ~HasItem(table', loc'[r].item.image_id)
    /\ \A i \in DOMAIN table' :
          <<table'[i].bucket_name, table'[i].object_key>> \in usedKeys'
    /\ \A i \in DOMAIN table' \ DOMAIN table :
          \E r \in Requests :
             /\ pc[r] = "put_item"
             /\ loc[r].item.image_id = i
             /\ HasBlob(blobs, BucketName, loc[r].item.object_key)
    /\ ret'.op \in CreateOps /\ ret'.call = "put_object"
       => /\ ret'.status = "store_error"
          /\ IsNone(ret'.value)
          /\ table' = table
          /\ blobs' = blobs
          /\ ~HasItem(table', ret'.of.image_id)

C13_BlobBeforeRecord == [][C13_Step]_vars

C13_Witness ==
    /\ ret.op \in CreateOps
    /\ ret.call = "put_object"
    /\ ret.status = "store_error"
    /\ ~HasItem(table, ret.of.image_id)

\* C15: a delete_image that ends at s3.delete_object has failed (HTTP 500, not
\* success and not 404) with the record of its image_id present and unchanged
\* and its request back at rest; table.delete_item is reached only from a
\* delete_object that removed the blob, and a record leaves the table only at
\* delete_item.
C15_Step ==
    /\ ret'.op = "delete_image" /\ ret'.call = "delete_object"
       => /\ ret'.status = "store_error"
          /\ HttpStatus(ret'.status) = 500
          /\ HasItem(table, ret'.of.image_id)
          /\ table' = table
          /\ blobs' = blobs
          /\ \A r \in Requests : pc[r] = "delete_object" => pc'[r] # "delete_item"
    /\ \A r \in Requests :
          pc'[r] = "delete_item" /\ pc[r] # "delete_item"
          => /\ pc[r] = "delete_object"
             /\ ~HasBlob(blobs', loc'[r].bucket, loc'[r].key)
             /\ table' = table
    /\ \A i \in DOMAIN table \ DOMAIN table' :
          \E r \in Requests : pc[r] = "delete_item" /\ loc[r].image_id = i

C15_BlobFailureKeepsRecord == [][C15_Step]_vars

C15_Witness ==
    /\ ret.op = "delete_image"
    /\ ret.call = "delete_object"
    /\ ret.status = "store_error"
    /\ HasItem(table, ret.of.image_id)
    /\ HasBlob(blobs, ret.of.bucket, ret.of.key)

\* C16: a create whose table.put_item fails ends with an error (HTTP 500) and
\* returns neither image_id nor url; the step changes neither store, the blob
\* written before is still at {user_id}/{image_id}/{filename} with the bytes
\* of the call, and there is no record of that image_id.
C16_Step ==
    ret'.op \in CreateOps /\ ret'.call = "put_item" /\ ret'.status # "ok"
    => /\ ret'.status = "store_error"
       /\ HttpStatus(ret'.status) = 500
       /\ IsNone(ret'.value)
       /\ table' = table
       /\ blobs' = blobs
       /\ ~HasItem(table', ret'.of.image_id)
       /\ LET key == ret'.of.user_id \o "/" \o ret'.of.image_id \o "/"
                     \o ret'.of.filename
          IN  /\ HasBlob(blobs', BucketName, key)
              /\ \E r \in Requests :
                    /\ pc[r] = "put_item"
                    /\ pc'[r] = "idle"
                    /\ blobs'[<<BucketName, key>>].Body = loc[r].data

C16_OrphanedBlob == [][C16_Step]_vars

C16_Witness ==
    /\ ret.op \in CreateOps
    /\ ret.call = "put_item"
    /\ ret.status = "store_error"
    /\ HasBlob(blobs, BucketName,
               ret.of.user_id \o "/" \o ret.of.image_id \o "/" \o ret.of.filename)
    /\ ~HasItem(table, ret.of.image_id)

----------------------------------------------------------------------------
(* Properties of concurrent requests, under Spec *)

\* C14: a get_image_stream whose s3.get_object call is answered while a
\* delete_image of the same image_id is between its get_item and its return
\* ends with the stream (HTTP 200) or with KeyError (HTTP 404), whenever the
\* store answered the call.
C14_Step ==
    \A r, q \in Requests :
       /\ pc[r] = "get_object"
       /\ pc'[r] = "idle"
       /\ pc[q] \in {"delete_object", "delete_item"}
       /\ loc[q].image_id = loc[r].image_id
       /\ ret'.status # "store_error"
       => HttpStatus(ret'.status) \in {200, 404}

C14_StreamOrNotFound == [][C14_Step]_vars

(* Concurrent creates, under SpecConcurrent *)

\* the requests that are between s3.put_object and table.put_item
InFlight == {r \in Requests : pc[r] = "put_item"}

\* C17: with the stores answering every call, concurrent creates of one
\* user_id and filename all return ok, each under an image_id of its own (as
\* many records and creates in flight as calls made); a create in flight has
\* its blob with its bytes and no record yet; every create that returned has
\* its record and its blob with the bytes it supplied; and no step changes a
\* record or a blob that is already there.
C17_State ==
    /\ ret.op \in CreateOps => ret.status = "ok"
    /\ \A r, q \in InFlight : r # q => loc[r].item.image_id # loc[q].item.image_id
    /\ \A r \in InFlight :
          /\ ~HasItem(table, loc[r].item.image_id)
          /\ HasBlob(blobs, BucketName, loc[r].item.object_key)
          /\ blobs[<<BucketName, loc[r].item.object_key>>].Body = loc[r].data
    /\ Cardinality(DOMAIN table) + Cardinality(InFlight) = nextUuid
    /\ Cardinality(DOMAIN blobs) = nextUuid
    /\ DOMAIN supplied = DOMAIN table
    /\ \A i \in DOMAIN table :
          /\ table[i].image_id = i
          /\ HasBlob(blobs, table[i].bucket_name, table[i].object_key)
          /\ blobs[<<table[i].bucket_name, table[i].object_key>>].Body = supplied[i]
          /\ table[i].size = Len(supplied[i])

C17_Step ==
    /\ \A i \in DOMAIN table : HasItem(table', i) /\ table'[i] = table[i]
    /\ \A k \in DOMAIN blobs : k \in DOMAIN blobs' /\ blobs'[k] = blobs[k]
    /\ ret'.op \in CreateOps /\ ret'.call = "put_item"
       => /\ HasItem(table', ret'.of.image_id)
          /\ Val(ret'.value).image_id = ret'.of.image_id
          /\ table'[ret'.of.image_id].user_id = ret'.of.user_id
          /\ table'[ret'.of.image_id].filename = ret'.of.filename
          /\ table'[ret'.of.image_id].content_type = ret'.of.content_type
          /\ supplied'[ret'.of.image_id] = ret'.of.data

C17_ConcurrentCreates == []C17_State /\ [][C17_Step]_vars

\* the create that drew the second image_id has returned while the one that
\* drew the first, of the same user_id and filename with other bytes, is still
\* before its put_item
C17_Witness ==
    /\ HasItem(table, Uuid(2))
    /\ \E r \in InFlight :
          /\ loc[r].item.image_id = Uuid(1)
          /\ loc[r].item.user_id = table[Uuid(2)].user_id
          /\ loc[r].item.filename = table[Uuid(2)].filename
          /\ loc[r].data # supplied[Uuid(2)]

----------------------------------------------------------------------------
(* Termination of the list loop, under SpecListFair *)

Looping(r) == pc[r] \in {"query", "scan"}

\* the items a list with arguments l accumulates from the first n of the
\* records the store reads for it
Accumulated(l, n) ==
    LET cand == Candidates(table, l)
        kept == SelectSeq(SubSeq(cand, 1, n), LAMBDA i : PageFilter(table[i], l))
    IN  [k \in 1..Len(kept) |-> table[kept[k]]]

\* how many records the store has read for a loop that holds the key esk
ReadSoFar(l, esk) ==
    LET cand == Candidates(table, l)
    IN  CHOOSE k \in 1..Len(cand) : cand[k] = Val(esk)

\* the arguments of the list_images that returned
Returned == [indexed |-> Truthy(ret.of.user_id)] @@ ret.of

\* while the loop runs it holds a LastEvaluatedKey and the items of the pages
\* fetched so far; the result returned is the items of all the pages, every
\* record the store reads for the request having been read
C18_State ==
    /\ \A r \in Requests :
          Looping(r)
          => /\ ~IsNone(loc[r].esk)
             /\ loc[r].pages > 0
             /\ loc[r].items = Accumulated(loc[r], ReadSoFar(loc[r], loc[r].esk))
    /\ ListReturned
       => Val(ret.value) = Accumulated(Returned, Len(Candidates(table, Returned)))

\* a loop that goes on has read further, and a list returns from a page only
C18_Step ==
    \A r \in Requests :
       /\ Looping(r) /\ Looping(r)'
          => \/ loc'[r] = loc[r]
             \/ /\ ReadSoFar(loc[r], loc[r].esk)' > ReadSoFar(loc[r], loc[r].esk)
                /\ loc'[r].pages = loc[r].pages + 1
       /\ Looping(r) /\ ~Looping(r)'
          => /\ ret'.op = "list_images"
             /\ ret'.of.continued
             /\ ret'.status = "ok"
                => /\ Len(Val(ret'.value)) >= Len(loc[r].items)
                   /\ SubSeq(Val(ret'.value), 1, Len(loc[r].items)) = loc[r].items

\* C18: over a table of finitely many records, list_images (query and scan
\* mode) accumulates the items of every page it fetches, goes on only with a
\* LastEvaluatedKey that is further on, returns only from a page without one,
\* with all the items, and always returns.
C18_ListTerminates ==
    /\ []C18_State
    /\ [][C18_Step]_vars
    /\ \A r \in {"r1"} : Looping(r) ~> ~Looping(r)

\* a list that took more than one page has returned, in scan mode
C18_Witness ==
    /\ ListReturned
    /\ ret.of.continued
    /\ ret.call = "scan"
    /\ Len(Val(ret.value)) = 2

----------------------------------------------------------------------------
(* finalize_image of objects that are not images, under SpecDeferred *)

\* the bytes open as no image
NotAnImage(body) ==
    \A s \in Signatures : ~(HasPrefix(body, s.sig) /\ Len(body) >= Len(s.sig) + 2)

\* the bytes open as an image of a format create refuses
OtherFormat(body) ==
    \E s \in Signatures :
       HasPrefix(body, s.sig) /\ Len(body) >= Len(s.sig) + 2 /\ s.fmt \notin {"JPEG", "PNG"}

\* C19: a finalize_image that has read its object fails only when a store call
\* fails, whatever the bytes are; when it returns, the record of the given
\* image_id is in the table, without an auto_metadata field when the bytes
\* open as no image and with the extracted one otherwise.
C19_Step ==
    /\ \A r \in Requests :
          /\ pc[r] = "finalize_get"
          /\ pc'[r] # "finalize_get"
          /\ HasBlob(blobs, BucketName, loc[r].key)
          => \/ pc'[r] = "idle" /\ ret'.status = "store_error"
             \/ /\ pc'[r] = "finalize_put"
                /\ loc'[r].item.image_id = loc[r].image_id
    /\ \A r \in Requests :
          pc[r] = "finalize_put" /\ pc'[r] = "idle"
          => /\ ret'.op = "finalize_image"
             /\ ret'.status \in {"ok", "store_error"}
    /\ ret'.op = "finalize_image" /\ ret'.status = "ok"
       => /\ HasItem(table', ret'.of.image_id)
          /\ Val(ret'.value).image_id = ret'.of.image_id
          /\ table'[ret'.of.image_id].object_key = ret'.of.key
          /\ HasBlob(blobs', BucketName, ret'.of.key)
          /\ LET body == blobs'[<<BucketName, ret'.of.key>>].Body
                 item == table'[ret'.of.image_id]
             IN  /\ NotAnImage(body) <=> "auto_metadata" \notin DOMAIN item
                 /\ OtherFormat(body) => item.auto_metadata.format = "GIF"

C19_FinalizeOfNonImage == [][C19_Step]_vars

\* a finalize_image of bytes that are no image has returned its image_id
C19_Witness ==
    /\ ret.op = "finalize_image"
    /\ ret.status = "ok"
    /\ HasItem(table, ret.of.image_id)
    /\ blobs[<<BucketName, ret.of.key>>].Body = Txt
    /\ "auto_metadata" \notin DOMAIN table[ret.of.image_id]

\* a finalize_image of a GIF has returned its image_id
C19_WitnessOtherFormat ==
    /\ ret.op = "finalize_image"
    /\ ret.status = "ok"
    /\ blobs[<<BucketName, ret.of.key>>].Body = GifC
    /\ table[ret.of.image_id].auto_metadata.format = "GIF"

----------------------------------------------------------------------------
(* Uniqueness of the blob key, under Spec *)

\* C20: two records with different image_id never have the same
\* (bucket_name, object_key).
C20_KeyOfOneRecord ==
    \A i, j \in DOMAIN table :
       i # j => <<table[i].bucket_name, table[i].object_key>>
                # <<table[j].bucket_name, table[j].object_key>>

====
